---- MODULE Spec2Model ----
(***************************************************************************)
(* TownCrier: a model of the channel-history pagers                        *)
(* (TownCrierSlackClient.get_channel_history and                           *)
(* get_complete_channel_history), of the collection loop                   *)
(* (collect_all_messages), of the transcript builder                       *)
(* (prepare_channel_context), of the summarization run                     *)
(* (step2_generate_summaries) and of the pipeline driver                   *)
(* (run_full_pipeline.main with its four steps, post_message and           *)
(* post_reply, and the files the steps hand on).                           *)
(*                                                                         *)
(* Five specifications share the module's variables:                       *)
(*   SpecPager      one run of a channel-history pager against a platform  *)
(*   SpecCollect    one collection run over the channel list               *)
(*   SpecContext    one transcript built from a channel's stored messages  *)
(*   SpecSummarize  one summarization run over a loaded data file          *)
(*   Spec           one run of the pipeline driver                         *)
(* A specification holds the variables of the others at their idle         *)
(* values.                                                                 *)
(***************************************************************************)
EXTENDS Integers, Sequences, FiniteSets, TLC

VARIABLES
    \* ---- the sleeps and external calls made so far, in order
    events,
    \* ---- channel-history pager (slack_client.py, collect_all_history.py)
    fn,                 \* which pager runs
    history,            \* platform: the channel's messages, in delivery order
    pageLen,            \* platform: how many messages it puts on a page
    oldest_timestamp,   \* start of the window (get_channel_history)
    all_messages,
    cursor,
    page_count,
    retry,
    hpc,                \* "page" | "attempt" | "returned" | "raised"
    raised,             \* the error the pager raised
    rateLimits,         \* platform: rate-limit errors answered so far
    conforming,         \* platform: every has_more came with a next_cursor
    responses,          \* the history requests made and how they were answered
    \* ---- pipeline driver (run_full_pipeline.py)
    pc,                 \* position in main
    started,            \* the steps main has called, in order
    success1, success2, success3, success4,   \* "unset" | "True" | "False"
    completed,          \* main printed PIPELINE COMPLETED SUCCESSFULLY
    attempt,            \* loop variable of post_message / post_reply
    thread_ts,          \* ts of the posted date message
    posted,             \* what this run has published to #daily-overview
    data_dir,           \* the files data/*.json
    summaries_dir,      \* the files summaries/summary_*.txt
    used,               \* the file steps 2, 3 and 4 have picked
    returns,            \* how the calls of post_message / post_reply ended
    bearer_token,       \* "unread" | "set" | "unset": os.getenv in step 4
    \* ---- collection run (collect_messages.py)
    cpc,                \* "channel" | "message" | "done"
    channels,           \* the channel list of the run
    ci,                 \* index of the channel being processed
    messages,           \* what the pager returned for that channel
    mi,                 \* index of the message being processed
    processed_messages,
    thread_replies_count,
    user_cache,
    all_data,           \* all_data["channels"]
    accessible_count,
    inaccessible_count,
    saved,              \* the JSON file was written
    failing_users,      \* platform: users whose users.info call fails
    lookups,            \* user ids passed to get_user_info, in order
    thread_calls,       \* the conversations.replies calls and their answers
    items,              \* platform: messages delivered and thread calls refused
    \* ---- transcript of one channel (prepare_channel_context)
    xpc,                \* "start" | "done"
    channel_data,       \* the channel's entry of the loaded JSON file
    context,            \* the lines of the transcript
    \* ---- summarization run (step 2, summarize_all_channels.main)
    zpc,                \* "select" | "loop" | "saved" | "failed"
    sum_channels,       \* data['channels'] of the loaded file, in its order
    target_channels,
    zi,                 \* index of the channel being summarized
    llm_requests,       \* the requests made to the LLM, in order
    all_summaries,
    summary_files,      \* the summary files this run has written
    step2_success,      \* "unset" | "True" | "False": what step 2 returned
    after_step2,        \* "none" | "step3" | "returned": where main went on
    \* ---- posting of data files (post_latest_data.main)
    dpc,                \* "start" | "loop" | "single" | "returned"
    args_all,           \* the --all flag
    env_token,          \* BEARER_TOKEN is set
    glob,               \* the files data/*.json, in the order glob lists them
    json_files,         \* the files main goes through
    jf,                 \* index of the loop over json_files
    success_count,
    exit_code,          \* what main returned, -1 while it runs
    post_log            \* the files handed to post_json_to_slack, in order

pagerVars == <<fn, history, pageLen, oldest_timestamp, all_messages, cursor,
               page_count, retry, hpc, raised, rateLimits, conforming,
               responses>>

pipeVars == <<pc, started, success1, success2, success3, success4, completed,
              attempt, thread_ts, posted, data_dir, summaries_dir, used,
              returns, bearer_token>>

collectVars == <<cpc, channels, ci, messages, mi, processed_messages,
                 thread_replies_count, user_cache, all_data, accessible_count,
                 inaccessible_count, saved, failing_users, lookups,
                 thread_calls, items>>

contextVars == <<xpc, channel_data, context>>

sumVars == <<zpc, sum_channels, target_channels, zi, llm_requests,
             all_summaries, summary_files, step2_success, after_step2>>

postVars == <<dpc, args_all, env_token, glob, json_files, jf, success_count,
              exit_code, post_log>>

vars == <<events, pagerVars, pipeVars, collectVars, contextVars, sumVars,
          postVars>>

\* What a step of the pager, of the pipeline, of the collection leaves alone.
notPager == <<pipeVars, collectVars, contextVars, sumVars, postVars>>
notPipe == <<pagerVars, collectVars, contextVars, sumVars, postVars>>
notCollect == <<events, pagerVars, pipeVars, contextVars, sumVars, postVars>>
notContext == <<events, pagerVars, pipeVars, collectVars, sumVars, postVars>>
notSum == <<events, pagerVars, pipeVars, collectVars, contextVars, postVars>>
notPost == <<events, pagerVars, pipeVars, collectVars, contextVars, sumVars>>

(***************************************************************************)
(* Bounds of the model.                                                    *)
(***************************************************************************)
MaxMsgs == 3          \* messages in a channel's history
MaxPageLen == 2       \* messages the platform puts on one page
MaxRateLimits == 3    \* rate-limit errors the platform answers in one run
MaxItems == 4         \* answers of the platform in one collection run
MaxCtxItems == 3      \* messages and replies of a channel entry to transcribe
MaxSumChannels == 2   \* channels in the file a summarization run loads

\* Timestamps the platform stamps messages with; NoTs is a message that
\* carries no 'ts' field.  Timestamps are whole ticks, so float() is exact.
Timestamps == 1..2
NoTs == -1

NoCursor == 0         \* None / '' : every falsy cursor
NoError == [slack |-> FALSE, error |-> "none", retryAfter |-> "none"]
NoHeader == "none"

(***************************************************************************)
(* Program constants.                                                      *)
(***************************************************************************)
max_retries == 3            \* retry loop of the pagers
Limit == 15                 \* params['limit']
PageDelay == 30             \* time.sleep(30) before a page request
DefaultRetryAfter == 120    \* default of Retry-After / retry_after = 120

Min(a, b) == IF a < b THEN a ELSE b

(***************************************************************************)
(* Events: a sleep or an external call.                                    *)
(***************************************************************************)
Sleep(why, secs) ==
    [kind |-> "sleep", why |-> why, secs |-> secs, api |-> "none",
     page |-> 0, outcome |-> "none", err |-> NoError]

Call(api, page, outcome, err) ==
    [kind |-> "call", why |-> "none", secs |-> 0, api |-> api,
     page |-> page, outcome |-> outcome, err |-> err]

(***************************************************************************)
(* Errors an attempt can end with.  slack: the exception is a SlackApiError;*)
(* error: e.response['error'] (for another exception, its message);        *)
(* retryAfter: the Retry-After header of the error response, as text.      *)
(***************************************************************************)
RetryAfterHeaders == {NoHeader, "7"}

Errors ==
    {[slack |-> TRUE, error |-> "rate_limited", retryAfter |-> h] :
        h \in RetryAfterHeaders}
    \cup {[slack |-> TRUE, error |-> "not_in_channel", retryAfter |-> NoHeader],
          [slack |-> FALSE, error |-> "connection_reset", retryAfter |-> NoHeader]}

\* int(<header text>)
ParseInt(s) == CASE s = "7" -> 7 [] OTHER -> 0

(***************************************************************************)
(* The platform's side of conversations.history: the channel's history is  *)
(* served in delivery order, a page at a time, the cursor being the number *)
(* of messages already served.                                             *)
(***************************************************************************)
Histories == UNION {[1..n -> Timestamps \cup {NoTs}] : n \in 0..MaxMsgs}

Msg(i) == [id |-> i, ts |-> history[i]]

PageEnd(c) == Min(c + Min(Limit, pageLen), Len(history))

PageOf(c) == [k \in 1..(PageEnd(c) - c) |-> Msg(c + k)]

HasMore(c) == PageEnd(c) < Len(history)

(***************************************************************************)
(* The pagers.                                                             *)
(***************************************************************************)
Pagers == {"get_channel_history", "get_complete_channel_history"}

\* float(msg.get('ts', 0))
msg_timestamp(msg) == IF msg.ts = NoTs THEN 0 ELSE msg.ts

\* Mutant of InWindow: the window filter is left out.
InWindowUnfiltered(msg, oldest) == TRUE

\* msg_timestamp >= oldest_timestamp
InWindow(msg, oldest) == msg_timestamp(msg) >= oldest

\* The loop over page_messages: the messages kept, and whether a message
\* older than the window ended the scan.
RECURSIVE ScanPage(_, _, _, _)
ScanPage(page, i, oldest, messages_in_window) ==
    IF i > Len(page)
    THEN [messages_in_window |-> messages_in_window, stop |-> FALSE]
    ELSE IF InWindow(page[i], oldest)
         THEN ScanPage(page, i + 1, oldest, Append(messages_in_window, page[i]))
         ELSE [messages_in_window |-> messages_in_window, stop |-> TRUE]

\* The messages a page adds to all_messages.
PageMessages(f, page, oldest) ==
    IF f = "get_channel_history"
    THEN ScanPage(page, 1, oldest, <<>>).messages_in_window
    ELSE page

\* Mutant of StopsAtOld: a message older than the window does not end the run.
StopsAtOldNever(f, page, oldest) == FALSE

\* The early return on a message older than the window.
StopsAtOld(f, page, oldest) ==
    f = "get_channel_history" /\ ScanPage(page, 1, oldest, <<>>).stop

\* A request of conversations_history as sent (params['cursor'], left out
\* while cursor is empty) and the response to it.
Response(sent, ok, has_more, next_cursor, page_messages) ==
    [cursor |-> sent, ok |-> ok, has_more |-> has_more,
     next_cursor |-> next_cursor, messages |-> page_messages]

\* A request answered with an error.
Failed(sent) == Response(sent, FALSE, FALSE, NoCursor, <<>>)

\* Mutant of FollowsCursor: the cursor test is inverted.
FollowsCursorInverted(has_more, next_cursor) ==
    has_more /\ next_cursor = NoCursor

\* Mutant of FollowsCursor: no page after the first is requested.
FollowsCursorNever(has_more, next_cursor) == FALSE

\* has_more, then the next_cursor check: another page is requested.
FollowsCursor(has_more, next_cursor) == has_more /\ next_cursor # NoCursor

\* Mutant of IsRateLimited: every SlackApiError is retried.
IsRateLimitedAnySlackError(f, e) == e.slack

\* The error is the named rate-limit error: e.response['error'] ==
\* 'rate_limited' of a SlackApiError, or 'rate_limited' in str(e).
IsRateLimited(f, e) ==
    IF f = "get_channel_history"
    THEN e.slack /\ e.error = "rate_limited"
    ELSE e.error = "rate_limited"

\* Mutant of retry_after: the Retry-After header is ignored.
retry_after_default(f, e) == DefaultRetryAfter

\* The sleep after a rate-limited attempt.
retry_after(f, e) ==
    IF f = "get_channel_history" /\ e.retryAfter # NoHeader
    THEN ParseInt(e.retryAfter)
    ELSE DefaultRetryAfter

\* Mutant of RetriesExhausted: off by one, the for-else never raises.
RetriesExhaustedOffByOne(r) == r >= max_retries

\* for retry in range(max_retries): the attempt just made was the last.
RetriesExhausted(r) == r + 1 >= max_retries

ExhaustedError == [slack |-> TRUE, error |-> "rate_limited", retryAfter |-> NoHeader]
ExhaustedException ==
    [slack |-> FALSE, error |-> "Rate limit retries exhausted", retryAfter |-> NoHeader]

PagerInit ==
    /\ fn \in Pagers
    /\ history \in Histories
    /\ pageLen \in 1..MaxPageLen
    /\ oldest_timestamp \in
         IF fn = "get_channel_history" THEN Timestamps ELSE {0}
    /\ all_messages = <<>>
    /\ cursor = NoCursor
    /\ page_count = 0
    /\ retry = 0
    /\ hpc = "page"
    /\ raised = NoError
    /\ rateLimits = 0
    /\ conforming = TRUE
    /\ responses = <<>>

PagerIdle ==
    /\ fn = "none"
    /\ history = <<>>
    /\ pageLen = 0
    /\ oldest_timestamp = 0
    /\ all_messages = <<>>
    /\ cursor = NoCursor
    /\ page_count = 0
    /\ retry = 0
    /\ hpc = "idle"
    /\ raised = NoError
    /\ rateLimits = 0
    /\ conforming = TRUE
    /\ responses = <<>>

\* Top of the while loop: count the page, sleep, enter the retry loop.
StartPage ==
    /\ UNCHANGED notPager
    /\ hpc = "page"
    /\ page_count' = page_count + 1
    /\ events' = Append(events, Sleep("page", PageDelay))
    /\ retry' = 0
    /\ hpc' = "attempt"
    /\ UNCHANGED <<fn, history, pageLen, oldest_timestamp, all_messages,
                   cursor, raised, rateLimits, conforming, responses>>

\* An attempt that succeeds: the page is scanned and the loop goes on or ends.
AttemptOk ==
    /\ UNCHANGED notPager
    /\ hpc = "attempt"
    /\ retry < max_retries
    /\ \E cursorGiven \in (IF HasMore(cursor) THEN BOOLEAN ELSE {TRUE}) :
         LET page == PageOf(cursor)
             has_more == HasMore(cursor)
             next_cursor == IF has_more /\ cursorGiven
                            THEN PageEnd(cursor) ELSE NoCursor
             stop == StopsAtOld(fn, page, oldest_timestamp)
         IN  /\ events' = Append(events,
                    Call("conversations_history", page_count, "ok", NoError))
             /\ responses' = Append(responses,
                    Response(cursor, TRUE, has_more, next_cursor, page))
             /\ all_messages' =
                    all_messages \o PageMessages(fn, page, oldest_timestamp)
             /\ IF stop
                THEN /\ hpc' = "returned"
                     /\ UNCHANGED <<cursor, conforming>>
                ELSE /\ hpc' = IF FollowsCursor(has_more, next_cursor)
                               THEN "page" ELSE "returned"
                     /\ cursor' = IF has_more THEN next_cursor ELSE cursor
                     /\ conforming' = (conforming /\ (has_more => cursorGiven))
    /\ UNCHANGED <<fn, history, pageLen, oldest_timestamp, page_count, retry,
                   raised, rateLimits>>

\* An attempt answered with the rate-limit error: sleep, then the next
\* attempt, or the raise of the for-else once the attempts are used up.
AttemptRateLimited ==
    /\ UNCHANGED notPager
    /\ hpc = "attempt"
    /\ retry < max_retries
    /\ rateLimits < MaxRateLimits
    /\ \E e \in Errors :
         /\ IsRateLimited(fn, e)
         /\ events' = events \o
              << Call("conversations_history", page_count, "rate_limited", e),
                 Sleep("retry", retry_after(fn, e)) >>
         /\ responses' = Append(responses, Failed(cursor))
         /\ retry' = retry + 1
         /\ rateLimits' = rateLimits + 1
         /\ IF RetriesExhausted(retry)
            THEN /\ hpc' = "raised"
                 /\ raised' = IF fn = "get_channel_history"
                              THEN ExhaustedError ELSE ExhaustedException
            ELSE UNCHANGED <<hpc, raised>>
    /\ UNCHANGED <<fn, history, pageLen, oldest_timestamp, all_messages,
                   cursor, page_count, conforming>>

\* An attempt that fails with any other error: it is re-raised.
AttemptError ==
    /\ UNCHANGED notPager
    /\ hpc = "attempt"
    /\ retry < max_retries
    /\ \E e \in Errors :
         /\ ~IsRateLimited(fn, e)
         /\ events' = Append(events,
                Call("conversations_history", page_count, "error", e))
         /\ responses' = Append(responses, Failed(cursor))
         /\ hpc' = "raised"
         /\ raised' = e
    /\ UNCHANGED <<fn, history, pageLen, oldest_timestamp, all_messages,
                   cursor, page_count, retry, rateLimits, conforming>>

PagerNext == StartPage \/ AttemptOk \/ AttemptRateLimited \/ AttemptError

(***************************************************************************)
(* The pipeline driver: main and its four steps.                           *)
(***************************************************************************)
\* Mutant of post_max_retries: one attempt more.
post_max_retries_plus_one == 3 + 1

post_max_retries == 3       \* max_retries=3 of post_message / post_reply
PostDelay == 30             \* time.sleep(30) in post_message, test_connection
ReplyDelay == 5             \* time.sleep(5) in post_reply
PostRetryAfter == 60        \* default of Retry-After in post_message / post_reply
RetryPause == 10            \* time.sleep(10) before the next attempt

Bool(b) == IF b THEN "True" ELSE "False"

\* Mutant of AbortsOn: main goes on after a failed step.
AbortsOnNever(success) == FALSE

\* if not successN: print(...); return        (steps 1, 2 and 3)
AbortsOn(success) == ~success

\* Mutant of CompletesAfterStep4: a failed step 4 ends the pipeline too.
CompletesOnlyOnSuccess(success) == success

\* if not success4: print("... but continuing..."), then the final summary
CompletesAfterStep4(success) == TRUE

\* What collect_all_messages can do as a whole: return the data, or raise
\* (no token, auth_test or conversations_list failed, the file not written).
Step1Outcomes == {"returned", "raised"}

\* try: data = collect_all_messages(); return True / except: return False
step1_collect_messages(outcome) == outcome = "returned"

\* What step 2 meets: the newest messages file loads, an API key and a
\* prompt are there, some channel qualifies, some summary came back, and
\* whether anything raised on the way.
Step2Envs ==
    [loads : BOOLEAN, api_key : BOOLEAN, prompt : BOOLEAN,
     target_channels : BOOLEAN, all_summaries : BOOLEAN, writes : BOOLEAN]

step2_generate_summaries(env) ==
    IF ~env.loads THEN FALSE                 \* except Exception
    ELSE IF ~env.api_key THEN FALSE
    ELSE IF ~env.prompt THEN FALSE
    ELSE IF ~env.target_channels THEN FALSE
    ELSE IF env.all_summaries
         THEN env.writes                     \* a failed write raises
         ELSE FALSE

\* What step 4 meets: BEARER_TOKEN, a JSON file in data/, and the answer of
\* the endpoint ("raised": requests.post raised).
Step4Envs ==
    [bearer_token : BOOLEAN, json_files : BOOLEAN,
     status : {"200", "500", "raised"}]

\* requests.post is called.
Step4Posts(env) == env.bearer_token /\ env.json_files

\* Mutant of step4_post_to_external_endpoint: a missing token is a failure.
step4_fails_without_token(env) ==
    IF ~env.bearer_token THEN FALSE
    ELSE IF ~env.json_files THEN FALSE
    ELSE env.status = "200"

step4_post_to_external_endpoint(env) ==
    IF ~env.bearer_token THEN TRUE           \* skipped
    ELSE IF ~env.json_files THEN FALSE       \* FileNotFoundError, caught
    ELSE env.status = "200"                  \* else False; a raise is caught

\* post_message / post_reply: the sleep before the call.
post_delay(kind) == IF kind = "message" THEN PostDelay ELSE ReplyDelay

\* post_message / post_reply: what the except branch does with error e on
\* attempt a.  A non-Slack exception is not caught at all.
PostErrorAction(e, a) ==
    IF ~e.slack THEN "propagate"
    ELSE IF e.error = "rate_limited" THEN "retry_after"
    ELSE IF a < post_max_retries - 1 THEN "pause"
    ELSE "raise"

\* The end of a call of post_message / post_reply: it returned the response
\* of the post, fell out of the loop (None), or raised err.
Returned(kind, result, err) == [fn |-> kind, result |-> result, err |-> err]

post_retry_after(e) ==
    IF e.retryAfter # NoHeader THEN ParseInt(e.retryAfter) ELSE PostRetryAfter

(***************************************************************************)
(* The artifacts.  A file is [name, mtime, run]: name is the time stamp in *)
(* its name (names of one pattern compare as their stamps do), mtime the   *)
(* time of its last write, run whether this run wrote it.  The stamp of a  *)
(* new file is the local wall-clock reading datetime.now() when it is      *)
(* written; the files of earlier runs are older by mtime.                  *)
(***************************************************************************)
OldStamps == {2}
RunStamps == {1, 3}

NoFile == [name |-> 0, mtime |-> 0, run |-> FALSE]

OldFiles == {[name |-> n, mtime |-> 0, run |-> FALSE] : n \in OldStamps}

\* with open(filename, 'w'): a file of that name is replaced.
WriteFile(dir, name, mtime) ==
    {g \in dir : g.name # name}
        \cup {[name |-> name, mtime |-> mtime, run |-> TRUE]}

\* sorted(files)[-1]
latest_file(dir) ==
    IF dir = {} THEN NoFile
    ELSE CHOOSE f \in dir : \A g \in dir : g.name <= f.name

\* max(json_files, key=os.path.getmtime)
find_most_recent_json(dir) ==
    IF dir = {} THEN NoFile
    ELSE CHOOSE f \in dir : \A g \in dir : g.mtime <= f.mtime

PipeInit ==
    /\ data_dir \in SUBSET OldFiles
    /\ summaries_dir \in SUBSET OldFiles
    /\ used = [step2 |-> NoFile, step3 |-> NoFile, step4 |-> NoFile]
    /\ returns = <<>>
    /\ bearer_token = "unread"
    /\ pc = "step1"
    /\ started = <<>>
    /\ success1 = "unset"
    /\ success2 = "unset"
    /\ success3 = "unset"
    /\ success4 = "unset"
    /\ completed = FALSE
    /\ attempt = 0
    /\ thread_ts = "none"
    /\ posted = <<>>

PipeIdle ==
    /\ data_dir = {}
    /\ summaries_dir = {}
    /\ used = [step2 |-> NoFile, step3 |-> NoFile, step4 |-> NoFile]
    /\ returns = <<>>
    /\ bearer_token = "unread"
    /\ pc = "idle"
    /\ started = <<>>
    /\ success1 = "unset"
    /\ success2 = "unset"
    /\ success3 = "unset"
    /\ success4 = "unset"
    /\ completed = FALSE
    /\ attempt = 0
    /\ thread_ts = "none"
    /\ posted = <<>>

\* main: step 1 and the check of success1.
Step1 ==
    /\ UNCHANGED notPipe
    /\ pc = "step1"
    /\ started' = Append(started, 1)
    /\ \E outcome \in Step1Outcomes :
         LET ok == step1_collect_messages(outcome)
         IN  /\ success1' = Bool(ok)
             /\ pc' = IF AbortsOn(ok) THEN "returned" ELSE "step2"
             /\ IF ok    \* the data file is the last thing written
                THEN \E now \in RunStamps :
                        data_dir' = WriteFile(data_dir, now, 1)
                ELSE UNCHANGED data_dir
    /\ UNCHANGED <<events, success2, success3, success4, completed, attempt,
                   thread_ts, posted, summaries_dir, used, returns,
                   bearer_token>>

\* main: step 2 and the check of success2.
Step2 ==
    /\ UNCHANGED notPipe
    /\ pc = "step2"
    /\ started' = Append(started, 2)
    /\ \E env \in Step2Envs :
         LET ok == step2_generate_summaries(env)
         IN  /\ success2' = Bool(ok)
             /\ pc' = IF AbortsOn(ok) THEN "returned" ELSE "step3"
             /\ used' = [used EXCEPT !.step2 = latest_file(data_dir)]
             /\ IF ok    \* the summary file has been written
                THEN \E now \in RunStamps :
                        summaries_dir' = WriteFile(summaries_dir, now, 2)
                ELSE UNCHANGED summaries_dir
    /\ UNCHANGED <<events, success1, success3, success4, completed, attempt,
                   thread_ts, posted, data_dir, returns, bearer_token>>

\* The end of step 3 with result ok, and main's check of success3.
Step3Returns(ok) ==
    /\ success3' = Bool(ok)
    /\ pc' = IF AbortsOn(ok) THEN "returned" ELSE "step4"

\* Step 3 up to the search for #daily-overview: the newest summary file is
\* read (step 2 of this run has written one), test_connection sleeps and
\* calls auth_test, conversations_list is called on the raw client.
Step3Begin ==
    /\ UNCHANGED notPipe
    /\ pc = "step3"
    /\ started' = Append(started, 3)
    /\ attempt' = 0
    /\ used' = [used EXCEPT !.step3 = latest_file(summaries_dir)]
    /\ \/ \E e \in Errors :           \* auth_test fails: test_connection raises
            /\ events' = events \o
                 << Sleep("call", PostDelay), Call("auth_test", 0, "error", e) >>
            /\ Step3Returns(FALSE)
       \/ \E e \in Errors :           \* conversations_list fails
            /\ events' = events \o
                 << Sleep("call", PostDelay), Call("auth_test", 0, "ok", NoError),
                    Call("conversations_list", 0, "error", e) >>
            /\ Step3Returns(FALSE)
       \/ \E found \in BOOLEAN :       \* is there a channel daily-overview
            /\ events' = events \o
                 << Sleep("call", PostDelay), Call("auth_test", 0, "ok", NoError),
                    Call("conversations_list", 0, "ok", NoError) >>
            /\ IF found
               THEN pc' = "s3_post_message" /\ UNCHANGED success3
               ELSE Step3Returns(FALSE)
    /\ UNCHANGED <<success1, success2, success4, completed, thread_ts, posted,
                   data_dir, summaries_dir, returns, bearer_token>>

\* One pass of the retry loop of post_message / post_reply, and what step 3
\* does when the call returns or raises.
PostAttempt(kind) ==
    /\ UNCHANGED notPipe
    /\ attempt < post_max_retries
    /\ \/ \* the post succeeds: the response is returned
          /\ events' = events \o
               << Sleep("call", post_delay(kind)),
                  Call("chat_postMessage", attempt + 1, "ok", NoError) >>
          /\ attempt' = 0
          /\ returns' = Append(returns, Returned(kind, "response", NoError))
          /\ IF kind = "message"
             THEN /\ posted' = Append(posted, [text |-> "date_range",
                                               thread_ts |-> "none"])
                  /\ thread_ts' = "ts_date"
                  /\ pc' = "s3_post_reply"
                  /\ UNCHANGED success3
             ELSE /\ posted' = Append(posted, [text |-> "summary_content",
                                               thread_ts |-> thread_ts])
                  /\ Step3Returns(TRUE)
                  /\ UNCHANGED thread_ts
       \/ \* the post fails
          \E e \in Errors :
            LET action == PostErrorAction(e, attempt)
                call == << Sleep("call", post_delay(kind)),
                           Call("chat_postMessage", attempt + 1, "error", e) >>
            IN  /\ UNCHANGED <<posted, thread_ts>>
                /\ IF action \in {"propagate", "raise"}
                   THEN \* caught by the except of step 3
                        /\ events' = events \o call
                        /\ returns' = Append(returns, Returned(kind, "raised", e))
                        /\ Step3Returns(FALSE)
                        /\ UNCHANGED attempt
                   ELSE /\ events' = events \o call \o
                             << Sleep("retry",
                                      IF action = "retry_after"
                                      THEN post_retry_after(e) ELSE RetryPause) >>
                        /\ attempt' = attempt + 1
                        /\ IF attempt + 1 < post_max_retries
                           THEN UNCHANGED <<pc, success3, returns>>
                           ELSE \* the loop ends and the call returns None:
                                \* date_response.get raises AttributeError;
                                \* the result of post_reply is not looked at
                                /\ returns' =
                                     Append(returns, Returned(kind, "None", e))
                                /\ Step3Returns(kind = "reply")
    /\ UNCHANGED <<started, success1, success2, success4, completed,
                   data_dir, summaries_dir, used, bearer_token>>

PostMessageAttempt == pc = "s3_post_message" /\ PostAttempt("message")

PostReplyAttempt == pc = "s3_post_reply" /\ PostAttempt("reply")

\* main: step 4, the check of success4 and the final summary.
Step4 ==
    /\ UNCHANGED notPipe
    /\ pc = "step4"
    /\ started' = Append(started, 4)
    /\ \E env \in Step4Envs :
         LET ok == step4_post_to_external_endpoint(env)
         IN  /\ success4' = Bool(ok)
             /\ events' = IF Step4Posts(env)
                          THEN Append(events,
                                 Call("requests.post", 0, env.status, NoError))
                          ELSE events
             /\ used' = IF Step4Posts(env)
                        THEN [used EXCEPT
                                !.step4 = find_most_recent_json(data_dir)]
                        ELSE used
             /\ bearer_token' = IF env.bearer_token THEN "set" ELSE "unset"
             /\ completed' = CompletesAfterStep4(ok)
             /\ pc' = "returned"
    /\ UNCHANGED <<success1, success2, success3, attempt, thread_ts, posted,
                   data_dir, summaries_dir, returns>>

PipeNext ==
    Step1 \/ Step2 \/ Step3Begin \/ PostMessageAttempt \/ PostReplyAttempt
          \/ Step4

(***************************************************************************)
(* The collection run: collect_all_messages (collect_all_history runs the  *)
(* same loop over the complete history).                                   *)
(*                                                                         *)
(* A text is a sequence of tokens: a mention <@USER_ID>, or a name that    *)
(* took a mention's place.  A raw message is [ts, user, text, reply_count];*)
(* the fields type, subtype and thread_ts are copied through and left out. *)
(***************************************************************************)
UserIds == {"U1", "U2"}
NoUser == "None"

\* Who the platform's messages and thread replies are from (a reply without
\* 'user' is a bot's), and whose users.info call may fail.
MessageAuthors == {"U1", "U2"}
ReplyAuthors == {"U2", NoUser}
MayFail == {"U2"}

Mention(u) == [kind |-> "mention", id |-> u]
NameToken(n) == [kind |-> "name", id |-> n]

Texts == {<<>>, <<Mention("U2")>>}

\* users.info of the platform: response['user'].
Directory(u) ==
    IF u = "U1"
    THEN [name |-> "ann", real_name |-> "Ann A", display_name |-> "annie"]
    ELSE [name |-> "bob", real_name |-> "Bob B", display_name |-> ""]

\* get_user_info: the call is answered, or a SlackApiError is swallowed.
get_user_info(u) ==
    IF u \in failing_users
    THEN [id |-> u, name |-> "Unknown", real_name |-> "Unknown",
          display_name |-> ""]
    ELSE [id |-> u, name |-> Directory(u).name,
          real_name |-> Directory(u).real_name,
          display_name |-> Directory(u).display_name]

\* display_name or real_name or name
user_name_of(info) ==
    IF info.display_name # "" THEN info.display_name
    ELSE IF info.real_name # "" THEN info.real_name
    ELSE info.name

\* re.findall(r'<@(U[A-Z0-9]+)>', text)
RECURSIVE user_mentions(_)
user_mentions(text) ==
    IF text = <<>> THEN <<>>
    ELSE IF Head(text).kind = "mention"
         THEN <<Head(text).id>> \o user_mentions(Tail(text))
         ELSE user_mentions(Tail(text))

\* text.replace(f'<@{user_id}>', f'@{user_name}')
Replace(text, u, n) ==
    [k \in DOMAIN text |->
        IF text[k] = Mention(u) THEN NameToken(n) ELSE text[k]]

\* The loop of resolve_user_mentions over the mentions found.
RECURSIVE ResolveLoop(_, _, _)
ResolveLoop(text, mentions, cache) ==
    IF mentions = <<>> THEN text
    ELSE LET user_id == Head(mentions)
             user_name == IF user_id \in DOMAIN cache
                          THEN user_name_of(cache[user_id]) ELSE ""
         IN  IF user_id \in DOMAIN cache /\ user_name # ""
                                         /\ user_name # "Unknown"
             THEN ResolveLoop(Replace(text, user_id, user_name),
                              Tail(mentions), cache)
             ELSE ResolveLoop(text, Tail(mentions), cache)

resolve_user_mentions(text, cache) ==
    IF text = <<>> THEN text
    ELSE ResolveLoop(text, user_mentions(text), cache)

\* Mutant of NeedsLookup: the cache is not consulted.
NeedsLookupAlways(u, cache) == u # NoUser

\* if user_id and user_id not in user_cache: user_cache[user_id] = ...
NeedsLookup(u, cache) == u # NoUser /\ u \notin DOMAIN cache

CacheAfter(u, cache) ==
    IF NeedsLookup(u, cache) THEN cache @@ (u :> get_user_info(u)) ELSE cache

LookupsAfter(u, cache, done) ==
    IF NeedsLookup(u, cache) THEN Append(done, u) ELSE done

\* user_name or "Unknown", after the lookup
StoredName(u, cache) ==
    IF u # NoUser /\ u \in DOMAIN cache /\ user_name_of(cache[u]) # ""
    THEN user_name_of(cache[u]) ELSE "Unknown"

\* Mutant of ThreadReplies: the parent is not dropped.
ThreadRepliesWithParent(response) ==
    IF response.outcome = "ok" THEN response.messages ELSE <<>>

\* get_thread_replies: replies[1:] if len(replies) > 1 else []; a
\* SlackApiError gives [].
ThreadReplies(response) ==
    IF response.outcome = "ok" /\ Len(response.messages) > 1
    THEN Tail(response.messages) ELSE <<>>

\* The loop over thread_replies: the cache, the lookups and the processed
\* replies after it.
RECURSIVE ProcessReplies(_, _, _, _)
ProcessReplies(thread_replies, cache, done, processed_replies) ==
    IF thread_replies = <<>>
    THEN [cache |-> cache, lookups |-> done, replies |-> processed_replies]
    ELSE LET reply == Head(thread_replies)
             cache2 == CacheAfter(reply.user, cache)
             processed_reply ==
                 [timestamp |-> reply.ts,
                  user_id |-> reply.user,
                  user_name |-> StoredName(reply.user, cache2),
                  text |-> resolve_user_mentions(reply.text, cache2)]
         IN  ProcessReplies(Tail(thread_replies), cache2,
                            LookupsAfter(reply.user, cache, done),
                            Append(processed_replies, processed_reply))

\* What the platform can deliver: top-level messages, stamped by position,
\* and the messages of a thread, the parent first.  The run's budget counts
\* every message delivered (a thread's parent once more with its thread) and
\* every thread call answered with an error.
Threads(msgs) == Cardinality({k \in DOMAIN msgs : msgs[k].reply_count > 0})

RawMessages(n) ==
    UNION {{msgs \in
              {[k \in 1..len |->
                  [ts |-> k, user |-> f[k][1], text |-> f[k][2],
                   reply_count |-> f[k][3]]] :
                f \in [1..len -> MessageAuthors \X Texts \X {0, 2}]} :
              Len(msgs) + Threads(msgs) <= n} :
           len \in 0..n}

RawReplies(parent, n) ==
    UNION {{[k \in 1..len |->
               [ts |-> 10 * parent.ts + k, user |-> f[k][1], text |-> f[k][2]]] :
             f \in [1..len -> ReplyAuthors \X Texts]} :
           len \in 0..n}

ParentOf(msg) == [ts |-> msg.ts, user |-> msg.user, text |-> msg.text]

\* How many replies of a thread the platform may hold back from the page it
\* answers with (has_more, with a next_cursor in response_metadata); a page
\* that announces more carries at least one reply.
HeldBack(r) == IF r = <<>> THEN {0} ELSE {0, 1}

\* Answers to conversations.replies for msg: a page of the thread (parent
\* first) and the number of replies left for further pages, a SlackApiError,
\* or another exception.
ThreadResponses(msg, n) ==
    {[outcome |-> "ok", messages |-> <<ParentOf(msg)>> \o rh[1],
      remaining |-> rh[2]] :
        rh \in {x \in RawReplies(msg, n) \X {0, 1} : x[2] \in HeldBack(x[1])}}
    \cup {[outcome |-> "slack_error", messages |-> <<>>, remaining |-> 0],
          [outcome |-> "exception", messages |-> <<>>, remaining |-> 0]}

ChannelLists == {<<"lab-notes-a", "surface-area-b">>}

\* What get_channel_history can raise to the channel loop.
ChannelErrors == {e \in Errors : e.retryAfter = NoHeader /\ e.error # "rate_limited"}

channel_id(name) == IF name = "lab-notes-a" THEN "C1" ELSE "C2"

\* Mutant of ErrorEntry: what was processed before the failure is kept.
ErrorEntryKeepsProcessed(name, e) ==
    [id |-> IF name = "lab-notes-a" THEN "C1" ELSE "C2",
     error |-> IF e.error = "not_in_channel" THEN "bot_not_in_channel"
               ELSE e.error,
     message_count |-> Len(processed_messages),
     thread_replies_count |-> 0,
     messages |-> processed_messages]

\* The except branch: "bot_not_in_channel" or str(e).
ErrorEntry(name, e) ==
    [id |-> channel_id(name),
     error |-> IF e.error = "not_in_channel" THEN "bot_not_in_channel"
               ELSE e.error,
     message_count |-> 0,
     thread_replies_count |-> 0,
     messages |-> <<>>]

CollectInit ==
    /\ cpc = "channel"
    /\ channels \in ChannelLists
    /\ ci = 1
    /\ messages = <<>>
    /\ mi = 1
    /\ processed_messages = <<>>
    /\ thread_replies_count = 0
    /\ user_cache = <<>>
    /\ all_data = <<>>
    /\ accessible_count = 0
    /\ inaccessible_count = 0
    /\ saved = FALSE
    /\ failing_users \in SUBSET MayFail
    /\ lookups = <<>>
    /\ thread_calls = <<>>
    /\ items = 0

CollectIdle ==
    /\ cpc = "idle"
    /\ channels = <<>>
    /\ ci = 1
    /\ messages = <<>>
    /\ mi = 1
    /\ processed_messages = <<>>
    /\ thread_replies_count = 0
    /\ user_cache = <<>>
    /\ all_data = <<>>
    /\ accessible_count = 0
    /\ inaccessible_count = 0
    /\ saved = FALSE
    /\ failing_users = {}
    /\ lookups = <<>>
    /\ thread_calls = <<>>
    /\ items = 0

\* The channel's processing raised: the error entry is written and the loop
\* goes to the next channel.
ChannelFails(e) ==
    /\ all_data' = [c \in DOMAIN all_data \cup {channels[ci]} |->
                      IF c = channels[ci] THEN ErrorEntry(channels[ci], e)
                      ELSE all_data[c]]
    /\ inaccessible_count' = inaccessible_count + 1
    /\ ci' = ci + 1
    /\ cpc' = "channel"
    /\ messages' = <<>>
    /\ mi' = 1
    /\ processed_messages' = <<>>
    /\ thread_replies_count' = 0
    /\ UNCHANGED accessible_count

\* for channel in channels: get_channel_history returns or raises.
StartChannel ==
    /\ UNCHANGED notCollect
    /\ cpc = "channel"
    /\ ci <= Len(channels)
    /\ \/ \E e \in ChannelErrors :
            /\ ChannelFails(e)
            /\ UNCHANGED items
       \/ \E msgs \in RawMessages(MaxItems - items) :
            /\ messages' = msgs
            /\ items' = items + Len(msgs) + Threads(msgs)
            /\ mi' = 1
            /\ processed_messages' = <<>>
            /\ thread_replies_count' = 0
            /\ cpc' = "message"
            /\ UNCHANGED <<ci, all_data, accessible_count, inaccessible_count>>
    /\ UNCHANGED <<channels, user_cache, saved, failing_users, lookups,
                   thread_calls>>

\* The body of for msg in messages: the author's lookup, the mentions, the
\* thread and its replies.
ProcessMessage ==
    /\ UNCHANGED notCollect
    /\ cpc = "message"
    /\ mi <= Len(messages)
    /\ LET msg == messages[mi]
           cache1 == CacheAfter(msg.user, user_cache)
           lookups1 == LookupsAfter(msg.user, user_cache, lookups)
           processed_msg ==
               [timestamp |-> msg.ts,
                user_id |-> msg.user,
                user_name |-> StoredName(msg.user, cache1),
                text |-> resolve_user_mentions(msg.text, cache1),
                reply_count |-> msg.reply_count,
                replies |-> <<>>]
       IN  IF msg.reply_count > 0
           THEN \E response \in ThreadResponses(msg, MaxItems - items) :
                  LET call == [channel |-> channel_id(channels[ci]),
                               ts |-> msg.ts, response |-> response]
                      done == ProcessReplies(ThreadReplies(response), cache1,
                                             lookups1, <<>>)
                  IN  /\ thread_calls' = Append(thread_calls, call)
                      /\ items' = items + Len(ThreadReplies(response))
                      /\ IF response.outcome = "exception"
                         THEN /\ ChannelFails([slack |-> FALSE,
                                               error |-> "connection_reset",
                                               retryAfter |-> NoHeader])
                              /\ user_cache' = cache1
                              /\ lookups' = lookups1
                         ELSE /\ user_cache' = done.cache
                              /\ lookups' = done.lookups
                              /\ processed_messages' =
                                   Append(processed_messages,
                                     [processed_msg EXCEPT
                                        !.replies = done.replies])
                              /\ thread_replies_count' =
                                   thread_replies_count + Len(done.replies)
                              /\ mi' = mi + 1
                              /\ UNCHANGED <<cpc, ci, messages, all_data,
                                   accessible_count, inaccessible_count>>
           ELSE /\ user_cache' = cache1
                /\ lookups' = lookups1
                /\ processed_messages' = Append(processed_messages, processed_msg)
                /\ mi' = mi + 1
                /\ UNCHANGED <<cpc, ci, messages, all_data, accessible_count,
                               inaccessible_count, thread_replies_count,
                               thread_calls, items>>
    /\ UNCHANGED <<channels, saved, failing_users>>

\* After the last message: the channel's entry is written.
FinishChannel ==
    /\ UNCHANGED notCollect
    /\ cpc = "message"
    /\ mi > Len(messages)
    /\ all_data' = [c \in DOMAIN all_data \cup {channels[ci]} |->
                      IF c = channels[ci]
                      THEN [id |-> channel_id(channels[ci]),
                            error |-> "none",
                            message_count |-> Len(messages),
                            thread_replies_count |-> thread_replies_count,
                            messages |-> processed_messages]
                      ELSE all_data[c]]
    /\ accessible_count' = accessible_count + 1
    /\ ci' = ci + 1
    /\ cpc' = "channel"
    /\ messages' = <<>>
    /\ mi' = 1
    /\ processed_messages' = <<>>
    /\ thread_replies_count' = 0
    /\ UNCHANGED <<channels, user_cache, inaccessible_count, saved,
                   failing_users, lookups, thread_calls, items>>

\* After the last channel: the user cache is added and the file written.
SaveData ==
    /\ UNCHANGED notCollect
    /\ cpc = "channel"
    /\ ci > Len(channels)
    /\ saved' = TRUE
    /\ cpc' = "done"
    /\ UNCHANGED <<channels, ci, messages, mi, processed_messages,
                   thread_replies_count, user_cache, all_data,
                   accessible_count, inaccessible_count, failing_users,
                   lookups, thread_calls, items>>

CollectNext == StartChannel \/ ProcessMessage \/ FinishChannel \/ SaveData

(***************************************************************************)
(* The transcript of a channel: prepare_channel_context (the same function *)
(* in run_full_pipeline.py, summarize_all_channels.py and                  *)
(* summarize_channel.py).                                                  *)
(*                                                                         *)
(* A stored message is [id, timestamp, user_name, text, replies]; id       *)
(* stands for the message's place in the stored list and is carried into   *)
(* the line made from it.  The transcript is the sequence of the lines     *)
(* that "\n".join puts together.                                           *)
(***************************************************************************)
CtxTimestamps == 1..3

\* Stored texts: whitespace only, or with content.
CtxTexts == {" ", "hi"}

\* str.strip()
Strip(t) == IF t = " " THEN "" ELSE t

\* datetime.fromtimestamp(ts).strftime('%Y-%m-%d %H:%M'): two ticks a minute.
timestamp_str(ts) == ts \div 2

RECURSIVE CtxReplies(_)
CtxReplies(k) ==
    IF k = 0 THEN {<<>>}
    ELSE {Append(r, [id |-> k, timestamp |-> ts, user_name |-> "bob",
                     text |-> t]) :
            r \in CtxReplies(k - 1), ts \in CtxTimestamps, t \in CtxTexts}

\* The stored message lists with at most n messages and replies in all.
RECURSIVE CtxMessages(_)
CtxMessages(n) ==
    {<<>>} \cup
    UNION {{<<[id |-> 0, timestamp |-> ts, user_name |-> "ann",
               text |-> t, replies |-> r]>> \o rest :
              rest \in CtxMessages(n - 1 - k),
              ts \in CtxTimestamps, t \in CtxTexts, r \in CtxReplies(k)} :
           k \in 0..(n - 1)}

\* Messages are numbered by their place in the list.
Numbered(seq) == [i \in DOMAIN seq |-> [seq[i] EXCEPT !.id = i]]

ChannelDatas(n) == {[messages |-> Numbered(m)] : m \in CtxMessages(n)}

\* float(x.get('timestamp', 0))
sort_key(x) == x.timestamp

\* Where sorted() puts x among the already sorted s: after every element
\* whose key is not greater (the sort is stable).
RECURSIVE InsertByKey(_, _)
InsertByKey(x, s) ==
    IF s = <<>> THEN <<x>>
    ELSE IF sort_key(s[Len(s)]) <= sort_key(x)
         THEN Append(s, x)
         ELSE Append(InsertByKey(x, SubSeq(s, 1, Len(s) - 1)), s[Len(s)])

RECURSIVE SortedFrom(_, _)
SortedFrom(seq, acc) ==
    IF seq = <<>> THEN acc
    ELSE SortedFrom(Tail(seq), InsertByKey(Head(seq), acc))

\* Mutant of sorted_by_timestamp: the list is taken in its stored order.
stored_order(seq) == seq

\* sorted(messages, key=lambda x: float(x.get('timestamp', 0)))
sorted_by_timestamp(seq) == SortedFrom(seq, <<>>)

NoMessagesLine ==
    [kind |-> "text", of |-> 0, reply |-> 0, timestamp |-> 0,
     timestamp_str |-> 0, user_name |-> "",
     text |-> "No messages found in this channel."]

MessageLine(msg) ==
    [kind |-> "message", of |-> msg.id, reply |-> 0,
     timestamp |-> msg.timestamp,
     timestamp_str |-> timestamp_str(msg.timestamp),
     user_name |-> msg.user_name, text |-> Strip(msg.text)]

ReplyLine(msg, reply) ==
    [kind |-> "reply", of |-> msg.id, reply |-> reply.id,
     timestamp |-> reply.timestamp,
     timestamp_str |-> timestamp_str(reply.timestamp),
     user_name |-> reply.user_name, text |-> Strip(reply.text)]

BlankLine ==
    [kind |-> "blank", of |-> 0, reply |-> 0, timestamp |-> 0,
     timestamp_str |-> 0, user_name |-> "", text |-> ""]

\* for reply in sorted_replies: a reply without text is skipped.
RECURSIVE ReplyLines(_, _)
ReplyLines(msg, sorted_replies) ==
    IF sorted_replies = <<>> THEN <<>>
    ELSE IF Strip(Head(sorted_replies).text) = ""
         THEN ReplyLines(msg, Tail(sorted_replies))
         ELSE <<ReplyLine(msg, Head(sorted_replies))>>
              \o ReplyLines(msg, Tail(sorted_replies))

\* for msg in sorted_messages: a message without text is skipped, with its
\* replies; the others give their line, their replies' lines and a blank.
RECURSIVE MessageLines(_)
MessageLines(sorted_messages) ==
    IF sorted_messages = <<>> THEN <<>>
    ELSE LET msg == Head(sorted_messages)
         IN  IF Strip(msg.text) = ""
             THEN MessageLines(Tail(sorted_messages))
             ELSE <<MessageLine(msg)>>
                  \o ReplyLines(msg, sorted_by_timestamp(msg.replies))
                  \o <<BlankLine>>
                  \o MessageLines(Tail(sorted_messages))

prepare_channel_context(cd) ==
    IF cd.messages = <<>>
    THEN <<NoMessagesLine>>
    ELSE MessageLines(sorted_by_timestamp(cd.messages))

ContextInit ==
    /\ xpc = "start"
    /\ channel_data \in ChannelDatas(MaxCtxItems)
    /\ context = <<>>

ContextIdle ==
    /\ xpc = "idle"
    /\ channel_data = [messages |-> <<>>]
    /\ context = <<>>

\* context = prepare_channel_context(channel_data)
PrepareContext ==
    /\ UNCHANGED notContext
    /\ xpc = "start"
    /\ context' = prepare_channel_context(channel_data)
    /\ xpc' = "done"
    /\ UNCHANGED channel_data

(***************************************************************************)
(* The summarization run: step2_generate_summaries, and main of            *)
(* summarize_all_channels.py, from the loaded data on.                     *)
(*                                                                         *)
(* A channel name is the sequence of its parts, so that startswith is a    *)
(* comparison of leading parts.                                            *)
(***************************************************************************)
ChannelNames ==
    {<<"lab-notes", "-", "a">>, <<"lab-notes", "-", "c">>,
     <<"surface-area", "-", "b">>, <<"lab-notes">>,
     <<"general", "-", "lab-notes", "-">>}

\* str.startswith
startswith(name, prefix) ==
    Len(name) >= Len(prefix) /\ SubSeq(name, 1, Len(prefix)) = prefix

\* The entries the collector writes: an error entry, a channel without
\* messages, a channel with messages.
StoredMessages ==
    Numbered(<<[id |-> 0, timestamp |-> 2, user_name |-> "ann", text |-> "hi",
                replies |-> <<>>],
               [id |-> 0, timestamp |-> 1, user_name |-> "bob", text |-> "hi",
                replies |-> <<>>]>>)

ChannelEntries ==
    {[error |-> "bot_not_in_channel", message_count |-> 0, messages |-> <<>>],
     [error |-> "none", message_count |-> 0, messages |-> <<>>],
     [error |-> "none", message_count |-> Len(StoredMessages),
      messages |-> StoredMessages]}

\* data['channels']: the entries under distinct names, in the file's order.
RECURSIVE LoadedChannels(_)
LoadedChannels(n) ==
    IF n = 0 THEN {<<>>}
    ELSE LoadedChannels(n - 1) \cup
         {Append(d, [name |-> c, entry |-> e]) :
            d \in {x \in LoadedChannels(n - 1) : Len(x) = n - 1},
            c \in ChannelNames, e \in ChannelEntries}

DistinctNames(d) == \A i, j \in DOMAIN d : d[i].name = d[j].name => i = j

\* Mutant of is_target_name: the prefix is looked for without its dash.
is_target_name_no_dash(name) ==
    startswith(name, <<"lab-notes">>) \/ startswith(name, <<"surface-area">>)

\* channel_name.startswith('lab-notes-') or
\* channel_name.startswith('surface-area-')
is_target_name(name) ==
    startswith(name, <<"lab-notes", "-">>)
        \/ startswith(name, <<"surface-area", "-">>)

\* not channel_data.get('error') and channel_data.get('message_count', 0) > 0
has_messages(entry) == entry.error = "none" /\ entry.message_count > 0

RECURSIVE select_targets(_)
select_targets(d) ==
    IF d = <<>> THEN <<>>
    ELSE IF is_target_name(Head(d).name) /\ has_messages(Head(d).entry)
         THEN <<Head(d).name>> \o select_targets(Tail(d))
         ELSE select_targets(Tail(d))

\* random.shuffle: every order of the list can come out.
Shuffles(seq) ==
    {[k \in DOMAIN seq |-> seq[f[k]]] :
        f \in {g \in [DOMAIN seq -> DOMAIN seq] :
                  \A i, j \in DOMAIN seq : g[i] = g[j] => i = j}}

\* channels[channel_name]
EntryOf(name) ==
    sum_channels[CHOOSE i \in DOMAIN sum_channels :
                    sum_channels[i].name = name].entry

\* What summarize_channel_with_claude gives back: the text of the answer, as
\* its lines, or None (the call raised and the exception was swallowed).
\* <<"">> is the empty text.
NoAnswer == [none |-> TRUE, text |-> <<>>]

LlmAnswers ==
    {NoAnswer} \cup
    {[none |-> FALSE, text |-> t] :
        t \in {<<"">>, <<"", "">>, <<"point", "", "point">>}}

\* Mutant of got_summary: the answer is tested against None only.
got_summary_not_none(summary) == ~summary.none

\* if summary:
got_summary(summary) == ~summary.none /\ summary.text # <<"">>

\* line.strip(): the lines are blank or not.
IsBlank(line) == line = ""

\* "\n".join(line for line in summary.split('\n') if line.strip())
cleaned_summary(text) == SelectSeq(text, LAMBDA line : ~IsBlank(line))

\* channel_summary = f"{channel_link}\n{cleaned_summary}"
channel_summary(channel_name, summary) ==
    [channel |-> channel_name, text |-> cleaned_summary(summary.text)]

SumInit ==
    /\ zpc = "select"
    /\ sum_channels \in {d \in LoadedChannels(MaxSumChannels) : DistinctNames(d)}
    /\ target_channels = <<>>
    /\ zi = 1
    /\ llm_requests = <<>>
    /\ all_summaries = <<>>
    /\ summary_files = <<>>
    /\ step2_success = "unset"
    /\ after_step2 = "none"

SumIdle ==
    /\ zpc = "idle"
    /\ sum_channels = <<>>
    /\ target_channels = <<>>
    /\ zi = 1
    /\ llm_requests = <<>>
    /\ all_summaries = <<>>
    /\ summary_files = <<>>
    /\ step2_success = "unset"
    /\ after_step2 = "none"

\* return True / return False of step 2, and main's check of success2.
Step2Returns(ok) ==
    /\ step2_success' = Bool(ok)
    /\ after_step2' = IF AbortsOn(ok) THEN "returned" ELSE "step3"

\* The API key and the prompt are checked, the target channels are selected
\* and shuffled.
SelectTargets ==
    /\ UNCHANGED notSum
    /\ zpc = "select"
    /\ \E api_key \in BOOLEAN, prompt \in BOOLEAN :
         IF ~api_key \/ ~prompt \/ select_targets(sum_channels) = <<>>
         THEN /\ zpc' = "failed"
              /\ Step2Returns(FALSE)
              /\ UNCHANGED target_channels
         ELSE /\ target_channels' \in Shuffles(select_targets(sum_channels))
              /\ zpc' = "loop"
              /\ UNCHANGED <<step2_success, after_step2>>
    /\ zi' = 1
    /\ UNCHANGED <<sum_channels, llm_requests, all_summaries, summary_files>>

\* The body of for channel_name in target_channels: the transcript is sent
\* to the LLM once; a summary that came back is appended.
SummarizeChannel ==
    /\ UNCHANGED notSum
    /\ zpc = "loop"
    /\ zi <= Len(target_channels)
    /\ \E summary \in LlmAnswers :
         LET channel_name == target_channels[zi]
             request == [channel |-> channel_name,
                         context |->
                            prepare_channel_context(EntryOf(channel_name)),
                         answer |-> summary]
         IN  /\ llm_requests' = Append(llm_requests, request)
             /\ all_summaries' =
                    IF got_summary(summary)
                    THEN Append(all_summaries,
                                channel_summary(channel_name, summary))
                    ELSE all_summaries
    /\ zi' = zi + 1
    /\ UNCHANGED <<zpc, sum_channels, target_channels, summary_files,
                   step2_success, after_step2>>

\* After the loop: the summaries are written to the file, if there are any.
SaveSummaries ==
    /\ UNCHANGED notSum
    /\ zpc = "loop"
    /\ zi > Len(target_channels)
    /\ IF all_summaries # <<>>
       THEN /\ summary_files' = Append(summary_files, all_summaries)
            /\ zpc' = "saved"
            /\ Step2Returns(TRUE)
       ELSE /\ zpc' = "failed"
            /\ Step2Returns(FALSE)
            /\ UNCHANGED summary_files
    /\ UNCHANGED <<sum_channels, target_channels, zi, llm_requests,
                   all_summaries>>

SumNext == SelectTargets \/ SummarizeChannel \/ SaveSummaries

(***************************************************************************)
(* Posting of the data files to the external endpoint:                     *)
(* post_latest_data.main.  The directory is the list glob gives, each file *)
(* named by its place in that list.                                        *)
(***************************************************************************)
MaxFiles == 3

File(name, mtime) == [name |-> name, mtime |-> mtime, run |-> FALSE]

Globs ==
    UNION {{[i \in 1..n |-> File(i, mtimes[i])] : mtimes \in [1..n -> 1..MaxFiles]} :
             n \in 0..MaxFiles}

FilesOf(list) == {list[i] : i \in DOMAIN list}

\* What requests.post does: a response with a status code, or an exception.
PostOutcomes == {"200", "500", "raised"}

\* list.sort keeps the order of files of equal key: f goes behind every
\* file that is not newer.
RECURSIVE InsertByMtime(_, _)
InsertByMtime(sorted, f) ==
    IF sorted = <<>> THEN <<f>>
    ELSE IF Head(sorted).mtime <= f.mtime
         THEN <<Head(sorted)>> \o InsertByMtime(Tail(sorted), f)
         ELSE <<f>> \o sorted

RECURSIVE SortByMtime(_, _)
SortByMtime(list, sorted) ==
    IF list = <<>> THEN sorted
    ELSE SortByMtime(Tail(list), InsertByMtime(sorted, Head(list)))

\* json_files.sort(key=os.path.getmtime)
find_all_json_files(list) == SortByMtime(list, <<>>)

\* response.status_code == 200
post_json_to_slack(outcome) == outcome = "200"

PostInit ==
    /\ dpc = "start"
    /\ args_all \in BOOLEAN
    /\ env_token \in BOOLEAN
    /\ glob \in Globs
    /\ json_files = <<>>
    /\ jf = 1
    /\ success_count = 0
    /\ exit_code = -1
    /\ post_log = <<>>

PostIdle ==
    /\ dpc = "idle"
    /\ args_all = FALSE
    /\ env_token = FALSE
    /\ glob = <<>>
    /\ json_files = <<>>
    /\ jf = 1
    /\ success_count = 0
    /\ exit_code = -1
    /\ post_log = <<>>

\* main up to the first post: the token check, then the files to post; a
\* directory without JSON files raises FileNotFoundError, which main's
\* except turns into exit code 1.
MainStart ==
    /\ UNCHANGED notPost
    /\ dpc = "start"
    /\ IF ~env_token \/ glob = <<>>
       THEN /\ exit_code' = 1
            /\ dpc' = "returned"
            /\ UNCHANGED json_files
       ELSE /\ json_files' = IF args_all
                             THEN find_all_json_files(glob)
                             ELSE <<find_most_recent_json(FilesOf(glob))>>
            /\ dpc' = IF args_all THEN "loop" ELSE "single"
            /\ UNCHANGED exit_code
    /\ UNCHANGED <<args_all, env_token, glob, jf, success_count, post_log>>

\* One round of the loop over json_files; an exception out of
\* post_json_to_slack leaves the loop for main's except.
PostNextFile ==
    /\ UNCHANGED notPost
    /\ dpc = "loop"
    /\ jf <= Len(json_files)
    /\ \E outcome \in PostOutcomes :
         /\ post_log' = Append(post_log,
                               [file |-> json_files[jf], outcome |-> outcome])
         /\ IF outcome = "raised"
            THEN /\ exit_code' = 1
                 /\ dpc' = "returned"
                 /\ UNCHANGED <<jf, success_count>>
            ELSE /\ success_count' = IF post_json_to_slack(outcome)
                                     THEN success_count + 1
                                     ELSE success_count
                 /\ jf' = jf + 1
                 /\ UNCHANGED <<exit_code, dpc>>
    /\ UNCHANGED <<args_all, env_token, glob, json_files>>

\* After the loop: return 0 if success_count == len(json_files) else 1
PostAllReturns ==
    /\ UNCHANGED notPost
    /\ dpc = "loop"
    /\ jf > Len(json_files)
    /\ exit_code' = IF success_count = Len(json_files) THEN 0 ELSE 1
    /\ dpc' = "returned"
    /\ UNCHANGED <<args_all, env_token, glob, json_files, jf, success_count,
                   post_log>>

\* Without --all: the most recent file is posted and main returns.
PostMostRecent ==
    /\ UNCHANGED notPost
    /\ dpc = "single"
    /\ \E outcome \in PostOutcomes :
         /\ post_log' = Append(post_log,
                               [file |-> json_files[1], outcome |-> outcome])
         /\ exit_code' = IF outcome # "raised" /\ post_json_to_slack(outcome)
                         THEN 0 ELSE 1
    /\ dpc' = "returned"
    /\ UNCHANGED <<args_all, env_token, glob, json_files, jf, success_count>>

PostNext == MainStart \/ PostNextFile \/ PostAllReturns \/ PostMostRecent

InitPostData ==
    /\ events = <<>>
    /\ PostInit /\ PagerIdle /\ PipeIdle /\ CollectIdle /\ ContextIdle
    /\ SumIdle

NextPostData == PostNext

SpecPostData == InitPostData /\ [][NextPostData]_vars

InitSum ==
    /\ events = <<>>
    /\ SumInit /\ PagerIdle /\ PipeIdle /\ CollectIdle /\ ContextIdle
    /\ PostIdle

NextSum == SumNext

SpecSummarize == InitSum /\ [][NextSum]_vars

InitContext ==
    /\ events = <<>>
    /\ ContextInit /\ PagerIdle /\ PipeIdle /\ CollectIdle /\ SumIdle
    /\ PostIdle

NextContext == PrepareContext

SpecContext == InitContext /\ [][NextContext]_vars

InitCollect ==
    /\ events = <<>>
    /\ CollectInit /\ PagerIdle /\ PipeIdle /\ ContextIdle /\ SumIdle
    /\ PostIdle

NextCollect == CollectNext

SpecCollect == InitCollect /\ [][NextCollect]_vars

InitPager ==
    /\ events = <<>>
    /\ PagerInit /\ PipeIdle /\ CollectIdle /\ ContextIdle /\ SumIdle
    /\ PostIdle

NextPager == PagerNext

Init ==
    /\ events = <<>>
    /\ PipeInit /\ PagerIdle /\ CollectIdle /\ ContextIdle /\ SumIdle
    /\ PostIdle

Next == PipeNext

Spec == Init /\ [][Next]_vars

SpecPager == InitPager /\ [][NextPager]_vars

(***************************************************************************)
(* Claims about the channel-history pagers (checked under SpecPager).      *)
(***************************************************************************)
IsHistoryCall(i) ==
    events[i].kind = "call" /\ events[i].api = "conversations_history"

CallsOnPage(p) == {i \in DOMAIN events : IsHistoryCall(i) /\ events[i].page = p}

IsSleep(i, why) ==
    i \in DOMAIN events /\ events[i].kind = "sleep" /\ events[i].why = why

RetrySleeps == {i \in DOMAIN events : IsSleep(i, "retry")}

\* The attempt number, within its page, of the call at position i: the
\* page's sleep comes right before the first attempt, and a retry sleep
\* between one attempt and the next.
AttemptNo(i) ==
    CASE IsSleep(i - 1, "page") -> 1
      [] IsSleep(i - 1, "retry") /\ IsSleep(i - 3, "page") -> 2
      [] IsSleep(i - 1, "retry") /\ IsSleep(i - 3, "retry")
                                 /\ IsSleep(i - 5, "page") -> 3
      [] OTHER -> 4

\* C3: a page's history call is attempted at most three times; a rate-limited
\* attempt is followed by a sleep and, while attempts remain, by another
\* attempt on the same page; a successful attempt is the last of its page;
\* after the third rate-limited attempt the pager has raised and made no
\* fourth attempt.
C3_AtMostThreeAttempts ==
    \A i \in DOMAIN events : IsHistoryCall(i) =>
        /\ AttemptNo(i) <= 3
        /\ events[i].outcome = "ok" =>
              /\ i < Len(events) => IsSleep(i + 1, "page")
              /\ i + 2 <= Len(events) => events[i + 2].page > events[i].page
        /\ events[i].outcome = "rate_limited" =>
              /\ IsSleep(i + 1, "retry")
              /\ IF AttemptNo(i) < 3
                 THEN /\ i + 1 = Len(events) => hpc = "attempt"
                      /\ i + 2 <= Len(events) =>
                            /\ IsHistoryCall(i + 2)
                            /\ events[i + 2].page = events[i].page
                 ELSE /\ i + 1 = Len(events)
                      /\ hpc = "raised"
                      /\ raised \in {ExhaustedError, ExhaustedException}

\* Three rate-limited attempts on the second page ended in the raise.
C3_Witness ==
    /\ hpc = "raised"
    /\ raised \in {ExhaustedError, ExhaustedException}
    /\ page_count = 2
    /\ Cardinality(CallsOnPage(2)) = 3

\* C4: an attempt that fails with an error other than the rate-limit error
\* is the last event of the run: the pager has raised that error, with no
\* sleep, no further attempt and no later page after it.
C4_OtherErrorPropagates ==
    \A i \in DOMAIN events :
        (IsHistoryCall(i) /\ events[i].outcome # "ok"
                          /\ events[i].err.error # "rate_limited") =>
            /\ i = Len(events)
            /\ hpc = "raised"
            /\ raised = events[i].err

\* On the second page, after a rate-limited attempt, another error is raised.
C4_Witness ==
    /\ hpc = "raised"
    /\ raised.error = "not_in_channel"
    /\ page_count = 2
    /\ retry = 1
    /\ events[Len(events)].kind = "call"

\* C5 as claimed: every sleep after a rate-limited attempt has one and the
\* same duration.
C5_OneFixedRetrySleep ==
    \A i, j \in RetrySleeps : events[i].secs = events[j].secs

\* C5 amended: the sleep after a rate-limited attempt lasts 120 s in
\* get_complete_channel_history; in get_channel_history it lasts the
\* Retry-After value of the error response when that carries one, and 120 s
\* otherwise.
C5_RetrySleepFollowsHeader ==
    \A i \in RetrySleeps :
        /\ i > 1
        /\ IsHistoryCall(i - 1)
        /\ LET e == events[i - 1].err
           IN  events[i].secs =
                 IF fn = "get_channel_history" /\ e.retryAfter = "7"
                 THEN 7 ELSE 120

\* One run slept 7 s after one rate-limit error and 120 s after another.
C5_Witness ==
    /\ \E i \in RetrySleeps : events[i].secs = 7
    /\ \E j \in RetrySleeps : events[j].secs = 120

\* C7: every message get_channel_history has collected carries a timestamp
\* that is not below the window start.
C7_ResultInsideWindow ==
    fn = "get_channel_history" =>
        \A k \in DOMAIN all_messages :
            /\ all_messages[k].ts # NoTs
            /\ all_messages[k].ts >= oldest_timestamp

\* A multi-page run returned messages although the history also held an
\* older message and a message without timestamp.
C7_Witness ==
    /\ fn = "get_channel_history"
    /\ hpc = "returned"
    /\ page_count >= 2
    /\ all_messages # <<>>
    /\ \E i \in DOMAIN history : history[i] = NoTs
    /\ \E i \in DOMAIN history : history[i] # NoTs /\ history[i] < oldest_timestamp

NewestFirst ==
    /\ \A i \in DOMAIN history : history[i] # NoTs
    /\ \A i, j \in DOMAIN history : i < j => history[i] >= history[j]

WholeHistory == [i \in DOMAIN history |-> Msg(i)]

IsInsideWindow(m) == m.ts >= oldest_timestamp

\* C8: when the platform delivers newest-first, every message is stamped and
\* every has_more comes with a cursor, what get_channel_history returns is
\* the history's in-window messages, in order, each exactly once.
C8_AllWindowMessages ==
    (fn = "get_channel_history" /\ hpc = "returned"
        /\ NewestFirst /\ conforming) =>
        all_messages = SelectSeq(WholeHistory, IsInsideWindow)

\* In-window messages of more than one page were collected from a history
\* that also holds an older message.
C8_Witness ==
    /\ fn = "get_channel_history"
    /\ hpc = "returned"
    /\ NewestFirst
    /\ conforming
    /\ page_count >= 2
    /\ Len(all_messages) >= 2
    /\ \E i \in DOMAIN history : history[i] < oldest_timestamp

RECURSIVE Flatten(_)
Flatten(seqs) ==
    IF seqs = <<>> THEN <<>> ELSE Head(seqs) \o Flatten(Tail(seqs))

PagesReceived == [i \in DOMAIN responses |-> responses[i].messages]

LastResponse == responses[Len(responses)]

EndsPaging(r) == r.ok /\ (~r.has_more \/ r.next_cursor = NoCursor)

\* C23: in get_complete_channel_history the first request carries no cursor,
\* a request after a response carries that response's next_cursor (a retry
\* repeats the cursor of the failed request), a further page is requested
\* exactly while the last response said has_more and gave a next_cursor, and
\* the result is the concatenation, in order, of the pages received: the
\* whole history once the platform has served it to the end.
C23_CompleteHistoryFollowsCursor ==
    fn = "get_complete_channel_history" =>
        /\ \A i \in DOMAIN responses :
              IF i = 1 THEN responses[i].cursor = NoCursor
              ELSE IF responses[i - 1].ok
                   THEN /\ ~EndsPaging(responses[i - 1])
                        /\ responses[i].cursor = responses[i - 1].next_cursor
                   ELSE responses[i].cursor = responses[i - 1].cursor
        /\ hpc = "returned" => responses # <<>> /\ EndsPaging(LastResponse)
        /\ (hpc = "page" /\ responses # <<>>) =>
              LastResponse.ok /\ ~EndsPaging(LastResponse)
        /\ all_messages = Flatten(PagesReceived)
        /\ (hpc = "returned" /\ conforming) => all_messages = WholeHistory

\* Three pages were fetched, one of them after a rate-limited attempt, and
\* the whole history of three messages was returned.
C23_Witness ==
    /\ fn = "get_complete_channel_history"
    /\ hpc = "returned"
    /\ page_count = 3
    /\ Len(responses) = 4
    /\ all_messages = WholeHistory
    /\ Len(all_messages) = 3

IsOld(m) == msg_timestamp(m) < oldest_timestamp

HasOld(page) == \E k \in DOMAIN page : IsOld(page[k])

FirstOld(page) ==
    CHOOSE k \in DOMAIN page :
        IsOld(page[k]) /\ \A j \in 1..(k - 1) : ~IsOld(page[j])

KeptOf(page) ==
    IF HasOld(page) THEN SubSeq(page, 1, FirstOld(page) - 1) ELSE page

\* C24: in get_channel_history a page that holds a message older than the
\* window is the last one requested, whatever has_more said: the run has
\* returned, and the result is made of the pages received, each cut off
\* before its first older message, so that nothing behind that message is
\* in the result.
C24_StopsAtFirstOldMessage ==
    fn = "get_channel_history" =>
        /\ \A i \in DOMAIN responses :
              (responses[i].ok /\ HasOld(responses[i].messages)) =>
                  /\ i = Len(responses)
                  /\ hpc = "returned"
        /\ all_messages =
              Flatten([i \in DOMAIN responses |-> KeptOf(responses[i].messages)])

\* The first page held an in-window message followed by an older one and
\* came with has_more and a cursor; the in-window message was kept, and the
\* in-window message on the next page was never requested.
C24_Witness ==
    /\ fn = "get_channel_history"
    /\ hpc = "returned"
    /\ Len(responses) = 1
    /\ LastResponse.has_more
    /\ LastResponse.next_cursor # NoCursor
    /\ Len(LastResponse.messages) = 2
    /\ ~IsOld(LastResponse.messages[1])
    /\ IsOld(LastResponse.messages[2])
    /\ all_messages = <<LastResponse.messages[1]>>
    /\ Len(history) = 3
    /\ ~IsOld(Msg(3))

(***************************************************************************)
(* Claims about the pipeline driver (checked under Spec).                  *)
(***************************************************************************)
Success(k) ==
    CASE k = 1 -> success1 [] k = 2 -> success2 [] k = 3 -> success3
      [] OTHER -> success4

\* C1: the steps are called in the order 1, 2, 3, 4; step k+1 has been
\* called only if step k reported success; once step 1, 2 or 3 has reported
\* failure it is the last step called and main has returned without
\* reaching the completed state.
C1_StepsInOrder ==
    /\ \A i \in DOMAIN started : started[i] = i
    /\ \A k \in 1..3 : Len(started) > k => Success(k) = "True"
    /\ \A k \in 1..3 :
          Success(k) = "False" =>
              /\ Len(started) = k
              /\ pc = "returned"
              /\ ~completed

\* Step 3 failed after the date message was out: main returned there.
C1_Witness ==
    /\ pc = "returned"
    /\ success3 = "False"
    /\ started = <<1, 2, 3>>
    /\ posted # <<>>

\* C2: when steps 1, 2 and 3 have reported success, main ends in the
\* completed state whatever step 4 reports; a failed step 4 leaves the
\* results of steps 1-3 as they were and no step has been called twice.
C2_Step4BestEffort ==
    /\ (pc = "returned" /\ success1 = "True" /\ success2 = "True"
                        /\ success3 = "True") =>
          /\ completed
          /\ started = <<1, 2, 3, 4>>
          /\ success4 \in {"True", "False"}
    /\ success4 = "False" =>
          /\ completed
          /\ success1 = "True" /\ success2 = "True" /\ success3 = "True"
          /\ started = <<1, 2, 3, 4>>

\* requests.post raised inside step 4, step 4 reported failure, and the
\* pipeline completed.
C2_Witness ==
    /\ completed
    /\ success4 = "False"
    /\ events # <<>>
    /\ events[Len(events)].api = "requests.post"
    /\ events[Len(events)].outcome = "raised"

ChatApis == {"auth_test", "conversations_list", "conversations_history",
             "conversations_replies", "chat_postMessage", "files_upload_v2",
             "users_info"}

\* C6: every call to the chat platform comes directly after a sleep.
C6_SleepBeforeEveryCall ==
    \A i \in DOMAIN events :
        (events[i].kind = "call" /\ events[i].api \in ChatApis) =>
            /\ i > 1
            /\ events[i - 1].kind = "sleep"

\* C14: the file step 2 loads, the file step 3 posts and the file step 4
\* forwards were written by this run (by step 1, step 2 and step 1).
C14_ConsumesOwnArtifacts ==
    /\ used.step2 # NoFile => used.step2.run
    /\ used.step3 # NoFile => used.step3.run
    /\ used.step4 # NoFile => used.step4.run

\* C15: a call of post_message or post_reply ends by returning the response
\* of a successful post or by raising; it never returns without one.
C15_ResponseOrRaise ==
    \A i \in DOMAIN returns : returns[i].result \in {"response", "raised"}

IsPostCall(i) ==
    i \in DOMAIN events /\ events[i].kind = "call"
                        /\ events[i].api = "chat_postMessage"

PostCalls == {i \in DOMAIN events : IsPostCall(i)}

\* C16: the post calls of one call of post_message or post_reply are
\* numbered 1, 2, 3 at most; a call numbered above 1 follows the failed call
\* numbered one less (call, sleep, sleep, call); a call numbered 1 that is
\* not the first follows a successful call, and the call after a successful
\* one is numbered 1, so it belongs to the next call of post_message or
\* post_reply; each channel message published is one successful call, and
\* there are no more of them than calls of post_message / post_reply.
C16_AtMostOnePostPerCall ==
    /\ \A i \in PostCalls :
          /\ events[i].page \in 1..3
          /\ events[i].page > 1 =>
                /\ IsPostCall(i - 3)
                /\ events[i - 3].outcome = "error"
                /\ events[i - 3].page = events[i].page - 1
          /\ (events[i].page = 1 /\ \E j \in PostCalls : j < i) =>
                /\ IsPostCall(i - 2)
                /\ events[i - 2].outcome = "ok"
          /\ events[i].outcome = "ok" =>
                \A j \in PostCalls : j > i => (j = i + 2 /\ events[j].page = 1)
                                              \/ j > i + 2
    /\ Len(posted) = Cardinality({i \in PostCalls : events[i].outcome = "ok"})
    /\ Len(posted) <= 2

\* post_reply published the summary on its third attempt, after the date
\* message went out on the second attempt of post_message.
C16_Witness ==
    /\ Len(posted) = 2
    /\ \E i \in PostCalls : events[i].page = 2 /\ events[i].outcome = "ok"
    /\ \E i \in PostCalls : events[i].page = 3 /\ events[i].outcome = "ok"

DateMessage == [text |-> "date_range", thread_ts |-> "none"]

SummaryReply == [text |-> "summary_content", thread_ts |-> "ts_date"]

\* C17: the date message is published first and the summary only after it,
\* as a reply in the date message's thread; post_reply is called only when
\* the date message is out; step 3 reports success only when both are out.
C17_DateThenSummaryReply ==
    /\ posted \in {<<>>, <<DateMessage>>, <<DateMessage, SummaryReply>>}
    /\ pc = "s3_post_reply" => posted = <<DateMessage>> /\ thread_ts = "ts_date"
    /\ \A i \in DOMAIN returns :
          returns[i].fn = "reply" =>
              i = 2 /\ returns[1] = Returned("message", "response", NoError)
    /\ success3 = "True" => posted = <<DateMessage, SummaryReply>>

\* C18: when step 3 has reported failure, the run has published nothing.
C18_NoPartialPost ==
    success3 = "False" => posted = <<>>

HttpPosts ==
    {i \in DOMAIN events :
        events[i].kind = "call" /\ events[i].api = "requests.post"}

\* C22: without BEARER_TOKEN step 4 makes no HTTP request, reads no data
\* file and reports success; with the token it makes at most one POST, of
\* the data file modified last, and reports success exactly if that POST was
\* made and answered with status 200.
C22_Step4SkipsOrPostsOnce ==
    /\ bearer_token = "unread" => HttpPosts = {} /\ used.step4 = NoFile
    /\ bearer_token = "unset" =>
          /\ HttpPosts = {}
          /\ used.step4 = NoFile
          /\ success4 = "True"
    /\ bearer_token = "set" =>
          /\ Cardinality(HttpPosts) <= 1
          /\ HttpPosts # {} =>
                /\ used.step4 \in data_dir
                /\ \A g \in data_dir : g.mtime <= used.step4.mtime
          /\ success4 = "True" <=>
                \E i \in HttpPosts : events[i].outcome = "200"
          /\ success4 \in {"True", "False"}

\* With the token set and an older file in data/, the POST of this run's
\* file was answered with status 500 and step 4 reported failure.
C22_Witness ==
    /\ bearer_token = "set"
    /\ success4 = "False"
    /\ Cardinality(data_dir) = 2
    /\ used.step4.run
    /\ \E i \in HttpPosts : events[i].outcome = "500"

(***************************************************************************)
(* Claims about the collection run (checked under SpecCollect).            *)
(***************************************************************************)
\* No mention of a user the cache knows by name is left in the text.
Resolved(text) ==
    \A t \in DOMAIN text :
        text[t].kind = "mention" =>
            ~(/\ text[t].id \in DOMAIN user_cache
              /\ user_name_of(user_cache[text[t].id]) # "Unknown")

\* C9: in the data of a finished run, every mention of a user whom the final
\* user_cache knows by a name other than 'Unknown' has been replaced, in
\* every stored message text and reply text.
C9_MentionsResolved ==
    cpc = "done" =>
        \A c \in DOMAIN all_data :
            \A k \in DOMAIN all_data[c].messages :
                LET m == all_data[c].messages[k]
                IN  /\ Resolved(m.text)
                    /\ \A j \in DOMAIN m.replies : Resolved(m.replies[j].text)

ThreadCallsFor(cid, ts) ==
    {j \in DOMAIN thread_calls :
        thread_calls[j].channel = cid /\ thread_calls[j].ts = ts}

\* The stored replies are the answer's messages without the first, in order.
RepliesAreTailOf(replies, response) ==
    IF response.outcome = "ok" /\ response.messages # <<>>
    THEN /\ Len(replies) = Len(response.messages) - 1
         /\ \A k \in DOMAIN replies :
               /\ replies[k].timestamp = response.messages[k + 1].ts
               /\ replies[k].user_id = response.messages[k + 1].user
    ELSE replies = <<>>

Threaded(cid, m) ==
    IF m.reply_count > 0
    THEN /\ Cardinality(ThreadCallsFor(cid, m.timestamp)) = 1
         /\ \A j \in ThreadCallsFor(cid, m.timestamp) :
               RepliesAreTailOf(m.replies, thread_calls[j].response)
    ELSE /\ ThreadCallsFor(cid, m.timestamp) = {}
         /\ m.replies = <<>>

\* C10: for every collected message with reply_count > 0 exactly one replies
\* call was made with its timestamp, and its "replies" are the messages of
\* the answer after the first, in the answer's order; for reply_count = 0
\* no call was made and "replies" is empty.
C10_RepliesUnderParent ==
    /\ \A c \in DOMAIN all_data :
          \A k \in DOMAIN all_data[c].messages :
              Threaded(all_data[c].id, all_data[c].messages[k])
    /\ cpc = "message" =>
          \A k \in DOMAIN processed_messages :
              Threaded(channel_id(channels[ci]), processed_messages[k])

\* A finished run stored a parent with two replies under it.
C10_Witness ==
    /\ cpc = "done"
    /\ \E c \in DOMAIN all_data :
          \E k \in DOMAIN all_data[c].messages :
              /\ all_data[c].messages[k].reply_count > 0
              /\ Len(all_data[c].messages[k].replies) = 2

\* The replies the thread of an answered call holds on the platform.
RepliesOfThread(response) == Len(response.messages) - 1 + response.remaining

\* C11: when a replies call was answered, the replies stored for the message
\* are all the replies of its thread, also when the platform announced more
\* replies than the answered page carries.
C11_EveryReplyOfThread ==
    \A c \in DOMAIN all_data :
        \A k \in DOMAIN all_data[c].messages :
            LET m == all_data[c].messages[k]
            IN  \A j \in ThreadCallsFor(all_data[c].id, m.timestamp) :
                    thread_calls[j].response.outcome = "ok" =>
                        Len(m.replies) = RepliesOfThread(thread_calls[j].response)

\* Every user id was passed to get_user_info at most once, the cache holds
\* exactly the users looked up, and a failed lookup is cached as 'Unknown'.
LookedUpOnce ==
    /\ \A i, j \in DOMAIN lookups : lookups[i] = lookups[j] => i = j
    /\ DOMAIN user_cache = {lookups[i] : i \in DOMAIN lookups}
    /\ \A u \in DOMAIN user_cache :
          u \in failing_users => user_cache[u].name = "Unknown"

\* A step keeps every entry of the cache as it is.
CacheOnlyGrows ==
    \A u \in DOMAIN user_cache :
        u \in DOMAIN user_cache' /\ user_cache'[u] = user_cache[u]

AuthoredBy(u, c) ==
    \E k \in DOMAIN all_data[c].messages : all_data[c].messages[k].user_id = u

Processed == {channels[k] : k \in 1..(ci - 1)}

ErrorEntries == {c \in DOMAIN all_data : all_data[c].error # "none"}

\* C19: the output holds exactly one entry for each channel gone through, an
\* error entry or a result; an error entry has message_count 0 and no
\* messages, whatever had been processed before the failure; the two
\* counters count the error entries and the results; the run is never
\* stopped before the last channel; once it is done every channel of the
\* list has its entry, the counters add up to the number of channels and the
\* file is written.
C19_FailureNeverAborts ==
    /\ DOMAIN all_data = Processed
    /\ \A c \in ErrorEntries :
          all_data[c].message_count = 0 /\ all_data[c].messages = <<>>
    /\ inaccessible_count = Cardinality(ErrorEntries)
    /\ accessible_count = Cardinality(DOMAIN all_data \ ErrorEntries)
    /\ cpc # "done" => ENABLED CollectNext
    /\ cpc = "done" =>
          /\ saved
          /\ DOMAIN all_data = {channels[k] : k \in DOMAIN channels}
          /\ accessible_count + inaccessible_count = Len(channels)

\* The first channel failed in a thread call after one of its messages had
\* been processed; the second channel was collected with a message; the run
\* is done.
C19_Witness ==
    /\ cpc = "done"
    /\ all_data[channels[1]].error # "none"
    /\ \E j \in DOMAIN thread_calls :
          /\ thread_calls[j].channel = all_data[channels[1]].id
          /\ thread_calls[j].ts > 1
          /\ thread_calls[j].response.outcome = "exception"
    /\ all_data[channels[2]].error = "none"
    /\ all_data[channels[2]].message_count > 0

(***************************************************************************)
(* Claims about the transcript (checked under SpecContext).                *)
(***************************************************************************)
TopLines == {i \in DOMAIN context : context[i].kind = "message"}

ReplyLinesOf == {i \in DOMAIN context : context[i].kind = "reply"}

\* The line comes from a stored message, or from a stored reply of one.
FromStored(line) ==
    /\ line.of \in DOMAIN channel_data.messages
    /\ LET m == channel_data.messages[line.of]
       IN  IF line.kind = "message"
           THEN line.timestamp = m.timestamp
           ELSE /\ line.reply \in DOMAIN m.replies
                /\ line.timestamp = m.replies[line.reply].timestamp

\* C12: the transcript of a channel without messages is the fixed text; in
\* any other transcript the top-level lines are in non-decreasing timestamp
\* order, and every reply line stands in the block that follows its parent's
\* line, after the parent's line or after an earlier-or-equal reply of the
\* same parent, with no other line in between.
C12_ChronologicalAndNested ==
    xpc = "done" =>
        IF channel_data.messages = <<>>
        THEN context = <<NoMessagesLine>>
        ELSE /\ \A i \in TopLines \cup ReplyLinesOf : FromStored(context[i])
             /\ \A i, j \in TopLines :
                   i < j => context[i].timestamp <= context[j].timestamp
             /\ \A i \in ReplyLinesOf :
                   /\ i - 1 \in TopLines \cup ReplyLinesOf
                   /\ context[i - 1].of = context[i].of
                   /\ i - 1 \in ReplyLinesOf =>
                         context[i - 1].timestamp <= context[i].timestamp

\* A transcript of two messages stored newest first, the older one with a
\* reply.
C12_Witness ==
    /\ xpc = "done"
    /\ Len(channel_data.messages) = 2
    /\ channel_data.messages[1].timestamp > channel_data.messages[2].timestamp
    /\ Cardinality(TopLines) = 2
    /\ ReplyLinesOf # {}

(***************************************************************************)
(* Claims about the summarization run (checked under SpecSummarize).       *)
(***************************************************************************)
\* The channel's name starts with 'lab-notes-' or 'surface-area-', its entry
\* carries no error and counts at least one message.
Qualifies(ch) ==
    /\ Len(ch.name) >= 2
    /\ ch.name[1] \in {"lab-notes", "surface-area"}
    /\ ch.name[2] = "-"
    /\ ch.entry.error = "none"
    /\ ch.entry.message_count > 0

QualifyingNames ==
    {sum_channels[i].name : i \in {j \in DOMAIN sum_channels :
                                      Qualifies(sum_channels[j])}}

RequestedNames == {llm_requests[i].channel : i \in DOMAIN llm_requests}

\* C20: every LLM request is for a channel with a qualifying name, no error
\* and message_count > 0; no channel is requested twice; the requests follow
\* the shuffled list, which holds every qualifying channel once; when the
\* loop is over every qualifying channel has had its one request.
C20_OneRequestPerTargetChannel ==
    /\ RequestedNames \subseteq QualifyingNames
    /\ \A i, j \in DOMAIN llm_requests :
          llm_requests[i].channel = llm_requests[j].channel => i = j
    /\ zpc \in {"loop", "saved"} =>
          /\ {target_channels[k] : k \in DOMAIN target_channels}
               = QualifyingNames
          /\ Len(target_channels) = Cardinality(QualifyingNames)
          /\ \A i \in DOMAIN llm_requests :
                llm_requests[i].channel = target_channels[i]
    /\ (zpc = "loop" /\ zi > Len(target_channels)) \/ zpc = "saved" =>
          RequestedNames = QualifyingNames
    /\ zpc = "failed" =>
          \/ llm_requests = <<>>
          \/ RequestedNames = QualifyingNames /\ all_summaries = <<>>

\* Two channels qualified and were requested in the reverse of the file's
\* order, the LLM failing on the first request.
C20_Witness ==
    /\ zpc = "saved"
    /\ Len(llm_requests) = 2
    /\ Len(sum_channels) = 2
    /\ llm_requests[1].channel = sum_channels[2].name
    /\ Len(all_summaries) = 1
    /\ all_summaries[1].channel = sum_channels[1].name

\* The requests the LLM answered with a non-empty text.
Answered ==
    SelectSeq(llm_requests,
              LAMBDA r : ~r.answer.none /\ r.answer.text # <<"">>)

\* A file's sections are the answered channels', in the order of the
\* requests: the channel and the non-blank lines of its text.
SectionsOfAnswered(file) ==
    /\ Len(file) = Len(Answered)
    /\ \A k \in DOMAIN file :
          /\ file[k].channel = Answered[k].channel
          /\ file[k].text =
                SelectSeq(Answered[k].answer.text, LAMBDA line : line # "")

PostedFiles == [i \in DOMAIN post_log |-> post_log[i].file]

\* C25: when main has returned, given a token and a directory with JSON
\* files: with --all every file was posted exactly once, oldest first, also
\* after a file that failed to post, and the exit code is 0 exactly if every
\* file was answered with status 200; without --all the one file posted is
\* the file modified last.
C25_PostsAllOldestFirst ==
    (dpc = "returned" /\ env_token /\ glob # <<>>) =>
        IF args_all
        THEN /\ Len(PostedFiles) = Len(glob)
             /\ FilesOf(PostedFiles) = FilesOf(glob)
             /\ \A i, j \in DOMAIN PostedFiles :
                   i < j => PostedFiles[i].mtime <= PostedFiles[j].mtime
             /\ exit_code = 0 <=>
                   /\ Len(post_log) = Len(glob)
                   /\ \A i \in DOMAIN post_log : post_log[i].outcome = "200"
        ELSE /\ Len(PostedFiles) = 1
             /\ PostedFiles[1] \in FilesOf(glob)
             /\ \A g \in FilesOf(glob) : g.mtime <= PostedFiles[1].mtime

====
